---- MODULE Spec2Model ----
(***************************************************************************)
(* IntradayMomentumAnalyzer (src/momentum_analyzer.py): the polling loop   *)
(* of run_analysis, the rolling price history, the moving average, the     *)
(* cross detector, the shift ledger and the final scoring and ranking.     *)
(*                                                                         *)
(* Time is counted in whole minutes.  Prices are naturals; a mean and a    *)
(* percentage are exact fractions <<numerator, denominator>>, compared by  *)
(* cross-multiplication.  A Python dict is a function whose DOMAIN is its  *)
(* key set; the feed's dict, whose iteration order matters, is the         *)
(* sequence of its items in insertion order.                               *)
(***************************************************************************)
EXTENDS Integers, Sequences, FiniteSets, TLC

VARIABLES
    pc,                 \* position of main()/run_analysis()
    now,                \* datetime.now(), in minutes
    ma_period,          \* self.ma_period
    stocks,             \* self.stocks
    price_history,      \* self.price_history  : symbol -> deque of <<timestamp, price>>
    momentum_shifts,    \* self.momentum_shifts: symbol -> list of shift events
    prev_cross_status,  \* self.prev_cross_status: symbol -> [above_ma, timestamp]
    end_time,           \* run_analysis: end_time
    interval,           \* run_analysis: interval_seconds, in minutes
    iteration,          \* run_analysis: iteration
    prices,             \* run_analysis, generate_final_report: prices
    sorted_changes,     \* generate_final_report: sorted_changes
    top_upward,         \* _save_results: upward
    top_downward,       \* _save_results: downward
    fed                 \* history variable: symbol -> every sample ever recorded

vars == << pc, now, ma_period, stocks, price_history, momentum_shifts,
           prev_cross_status, end_time, interval, iteration, prices,
           sorted_changes, top_upward, top_downward, fed >>

-----------------------------------------------------------------------------
(* Bounds of the model and constants of the program *)

MaxPeriod == 2          \* ma_period ranges over 1..MaxPeriod
MaxCycles == 3          \* polling cycles of a run, two instruments
MaxCyclesOne == 5       \* polling cycles of a run, one instrument
MaxCyclesLong == 62     \* polling cycles of a run that overflows the deque

HistoryCapacity == 60   \* deque(maxlen=60)
RelevanceMinutes == 60  \* if time_diff <= 60
TopN == 5               \* upward_shifts[:5], downward_shifts[:5]

IndexSymbol == "NIFTY 50"

-----------------------------------------------------------------------------
(* Sequences, dicts and fractions *)

None == << >>

Abs(x) == IF x < 0 THEN -x ELSE x

Min(a, b) == IF a < b THEN a ELSE b

\* s[-n:] of a Python list, for n >= 1
LastN(s, n) == IF n >= Len(s) THEN s ELSE SubSeq(s, Len(s) - n + 1, Len(s))

\* Mutant of FirstN: the list is not cut
FirstNUncut(s, n) == s

\* s[:n] of a Python list
FirstN(s, n) == IF n >= Len(s) THEN s ELSE SubSeq(s, 1, n)

\* d[k] of a defaultdict read without inserting
Get(d, k, default) == IF k \in DOMAIN d THEN d[k] ELSE default

\* d[k] = v
Put(d, k, v) == [x \in (DOMAIN d) \cup {k} |-> IF x = k THEN v ELSE d[x]]

RECURSIVE SumPrices(_)
SumPrices(samples) ==
    IF samples = << >> THEN 0
    ELSE samples[1][2] + SumPrices(Tail(samples))

\* a > b for an integer a and a fraction b with a positive denominator
GreaterThan(a, b) == a * b[2] > b[1]

-----------------------------------------------------------------------------
(* Rolling history store, moving average, cross detector *)

\* Mutant of DequeAppend: a deque without maxlen
DequeAppendUnbounded(dq, x) == Append(dq, x)

\* deque(maxlen=60).append(x): a full deque drops its oldest item first
DequeAppend(dq, x) ==
    IF Len(dq) >= HistoryCapacity THEN Append(Tail(dq), x) ELSE Append(dq, x)

\* Mutant of calculate_moving_average: the mean of whatever samples there are
calculate_moving_average_partial(history, period) ==
    IF history = << >> THEN None
    ELSE LET window == LastN(history, period)
         IN  << SumPrices(window), Len(window) >>

\* Mutant of calculate_moving_average: the mean of the whole window
calculate_moving_average_all(history, period) ==
    IF Len(history) < period THEN None
    ELSE << SumPrices(history), Len(history) >>

\* calculate_moving_average: None below ma_period samples, else np.mean of
\* the prices of list(history)[-ma_period:]
calculate_moving_average(history, period) ==
    IF Len(history) < period THEN None
    ELSE LET window == LastN(history, period)
         IN  << SumPrices(window), Len(window) >>

\* Mutant of CurrentAboveMa: >= for >
CurrentAboveMaOrEqual(current_ltp, ma) == current_ltp * ma[2] >= ma[1]

\* current_above_ma = current_ltp > ma
CurrentAboveMa(current_ltp, ma) == GreaterThan(current_ltp, ma)

\* Mutant of CrossType: the previous side is not tested
CrossTypeNoPrevTest(status, symbol, current_above_ma) ==
    IF symbol \in DOMAIN status
    THEN IF current_above_ma THEN "Upward" ELSE "Downward"
    ELSE "none"

\* Mutant of CrossType: an instrument without a previous status counts as below
CrossTypeDefaultBelow(status, symbol, current_above_ma) ==
    LET prev_above_ma == IF symbol \in DOMAIN status
                         THEN status[symbol].above_ma ELSE FALSE
    IN  IF current_above_ma /\ ~prev_above_ma THEN "Upward"
        ELSE IF ~current_above_ma /\ prev_above_ma THEN "Downward"
        ELSE "none"

\* the cross test of detect_momentum_shift: the shift type appended, or None
CrossType(status, symbol, current_above_ma) ==
    IF symbol \in DOMAIN status
    THEN LET prev_above_ma == status[symbol].above_ma
         IN  IF current_above_ma /\ ~prev_above_ma THEN "Upward"
             ELSE IF ~current_above_ma /\ prev_above_ma THEN "Downward"
             ELSE "none"
    ELSE "none"

\* Mutant of ShiftEvent: the event carries the whole part of the average as
\* its price
ShiftEventAtAverage(timestamp, shift_type, current_ltp, ma) ==
    [ timestamp      |-> timestamp,
      shift_type     |-> shift_type,
      price_at_cross |-> ma[1] \div ma[2],
      ma_at_cross    |-> ma ]

ShiftEvent(timestamp, shift_type, current_ltp, ma) ==
    [ timestamp      |-> timestamp,
      shift_type     |-> shift_type,
      price_at_cross |-> current_ltp,
      ma_at_cross    |-> ma ]

\* Mutant of detect_momentum_shift: the status is left as it was when an
\* event is appended
detect_momentum_shift_stale_status(st, period, symbol, current_ltp, timestamp) ==
    LET ma == calculate_moving_average(Get(st.price_history, symbol, << >>), period)
    IN  IF ma = None THEN st
        ELSE
          LET current_above_ma == CurrentAboveMa(current_ltp, ma)
              cross == CrossType(st.prev_cross_status, symbol, current_above_ma)
          IN  IF cross = "none"
              THEN [ st EXCEPT
                       !.prev_cross_status =
                           Put(st.prev_cross_status, symbol,
                               [ above_ma |-> current_above_ma,
                                 timestamp |-> timestamp ]) ]
              ELSE [ st EXCEPT
                       !.momentum_shifts =
                           Put(st.momentum_shifts, symbol,
                               Append(Get(st.momentum_shifts, symbol, << >>),
                                      ShiftEvent(timestamp, cross, current_ltp, ma))) ]

\* detect_momentum_shift(symbol, current_ltp, timestamp) on the stores st
detect_momentum_shift(st, period, symbol, current_ltp, timestamp) ==
    LET ma == calculate_moving_average(Get(st.price_history, symbol, << >>), period)
    IN  IF ma = None THEN st
        ELSE
          LET current_above_ma == CurrentAboveMa(current_ltp, ma)
              cross == CrossType(st.prev_cross_status, symbol, current_above_ma)
              shifts ==
                  IF cross = "none" THEN st.momentum_shifts
                  ELSE Put(st.momentum_shifts, symbol,
                           Append(Get(st.momentum_shifts, symbol, << >>),
                                  ShiftEvent(timestamp, cross, current_ltp, ma)))
          IN  [ st EXCEPT
                  !.momentum_shifts = shifts,
                  !.prev_cross_status =
                      Put(st.prev_cross_status, symbol,
                          [ above_ma |-> current_above_ma, timestamp |-> timestamp ]) ]

\* Mutant of RecordSample: the sample goes to the window of every instrument
RecordSampleAll(st, symbol, sample) ==
    [ st EXCEPT
        !.price_history =
            [ x \in (DOMAIN st.price_history) \cup { symbol } |->
                DequeAppend(Get(st.price_history, x, << >>), sample) ],
        !.fed = Put(st.fed, symbol, Append(Get(st.fed, symbol, << >>), sample)) ]

\* Mutant of RecordSample: only the symbols of the catalog are recorded
RecordSampleInCatalog(st, symbol, sample) ==
    IF \E i \in 1..Len(stocks) : stocks[i] = symbol
    THEN [ st EXCEPT
             !.price_history =
                 Put(st.price_history, symbol,
                     DequeAppend(Get(st.price_history, symbol, << >>), sample)),
             !.fed = Put(st.fed, symbol, Append(Get(st.fed, symbol, << >>), sample)) ]
    ELSE st

\* self.price_history[symbol].append((timestamp, ltp))
RecordSample(st, symbol, sample) ==
    [ st EXCEPT
        !.price_history =
            Put(st.price_history, symbol,
                DequeAppend(Get(st.price_history, symbol, << >>), sample)),
        !.fed = Put(st.fed, symbol, Append(Get(st.fed, symbol, << >>), sample)) ]

\* Mutant of DriverStep: the detector runs before the sample is recorded
DriverStepDetectFirst(st, period, item) ==
    RecordSample(
        detect_momentum_shift(st, period, item.symbol, item.ltp, item.timestamp),
        item.symbol, << item.timestamp, item.ltp >>)

\* the body of the for loop of run_analysis for one item of the snapshot
DriverStep(st, period, item) ==
    detect_momentum_shift(
        RecordSample(st, item.symbol, << item.timestamp, item.ltp >>),
        period, item.symbol, item.ltp, item.timestamp)

\* for symbol, price_data in prices.items(): ...
RECURSIVE UpdateAndDetect(_, _, _)
UpdateAndDetect(st, period, items) ==
    IF items = << >> THEN st
    ELSE UpdateAndDetect(DriverStep(st, period, Head(items)), period, Tail(items))

Stores ==
    [ price_history     |-> price_history,
      momentum_shifts   |-> momentum_shifts,
      prev_cross_status |-> prev_cross_status,
      fed               |-> fed ]

-----------------------------------------------------------------------------
(* Price feed *)

\* One row of data['data'] of the index API
Row(symbol, lastPrice) == [ symbol |-> symbol, lastPrice |-> lastPrice ]

\* prices[symbol] = {...}: a new key goes last, an old key keeps its place
DictSet(items, item) ==
    IF \E i \in 1..Len(items) : items[i].symbol = item.symbol
    THEN [ i \in 1..Len(items) |->
             IF items[i].symbol = item.symbol THEN item ELSE items[i] ]
    ELSE Append(items, item)

\* Mutant of fetch_all_live_prices: each row is stamped with a clock of its own
RECURSIVE fetch_all_live_prices_restamped(_, _, _)
fetch_all_live_prices_restamped(rows, timestamp, acc) ==
    IF rows = << >> THEN acc
    ELSE LET stock == Head(rows)
             next ==
               IF stock.symbol # "" /\ stock.symbol # IndexSymbol
               THEN DictSet(acc, [ symbol    |-> stock.symbol,
                                   ltp       |-> stock.lastPrice,
                                   timestamp |-> timestamp + Len(acc) ])
               ELSE acc
         IN  fetch_all_live_prices_restamped(Tail(rows), timestamp, next)

\* fetch_all_live_prices on the rows of a response (no rows: the request
\* failed, the status was not 200 or the body had no 'data')
RECURSIVE fetch_all_live_prices(_, _, _)
fetch_all_live_prices(rows, timestamp, acc) ==
    IF rows = << >> THEN acc
    ELSE LET stock == Head(rows)
             next ==
               IF stock.symbol # "" /\ stock.symbol # IndexSymbol
               THEN DictSet(acc, [ symbol    |-> stock.symbol,
                                   ltp       |-> stock.lastPrice,
                                   timestamp |-> timestamp ])
               ELSE acc
         IN  fetch_all_live_prices(Tail(rows), timestamp, next)

\* The responses of the feed: a failure, or the index row followed by rows
\* of distinct symbols of S in any order with last prices in P
Responses(S, P) ==
    LET Rows == { Row(s, p) : s \in S, p \in P }
        Lists == UNION { [ 1..n -> Rows ] : n \in 0..Cardinality(S) }
        Distinct(l) == \A i, j \in 1..Len(l) : i # j => l[i].symbol # l[j].symbol
    IN  { << >> } \cup
        { << Row(IndexSymbol, 0) >> \o l : l \in { x \in Lists : Distinct(x) } }

Symbols(items) == { items[i].symbol : i \in 1..Len(items) }

-----------------------------------------------------------------------------
(* Outcome scorer and ranker *)

\* pct_change = ((current_ltp - price_at_cross) / price_at_cross) * 100
PctChange(current_ltp, price_at_cross) ==
    << (current_ltp - price_at_cross) * 100, price_at_cross >>

\* abs(pct_change), for a positive denominator
AbsPct(pct) == << Abs(pct[1]), pct[2] >>

\* Mutant of WithinWindow: an event aged exactly 60 minutes is left out
WithinWindowStrict(time_diff) == time_diff < RelevanceMinutes

\* if time_diff <= 60
WithinWindow(time_diff) == time_diff <= RelevanceMinutes

ScoredOutcome(symbol, shift, current_ltp, time_diff) ==
    LET pct_change == PctChange(current_ltp, shift.price_at_cross)
    IN  [ symbol                |-> symbol,
          shift_time            |-> shift.timestamp,
          shift_type            |-> shift.shift_type,
          price_at_cross        |-> shift.price_at_cross,
          current_price         |-> current_ltp,
          pct_change            |-> pct_change,
          abs_pct_change        |-> AbsPct(pct_change),
          time_since_shift_mins |-> time_diff ]

\* calculate_percentage_change over the shifts of one symbol; the division
\* raises ZeroDivisionError when price_at_cross is 0
RECURSIVE calculate_percentage_change(_, _, _, _, _)
calculate_percentage_change(symbol, current_ltp, shifts, clock, results) ==
    IF shifts = << >> THEN [ raised |-> FALSE, results |-> results ]
    ELSE LET shift == Head(shifts)
             time_diff == clock - shift.timestamp
         IN  IF WithinWindow(time_diff)
             THEN IF shift.price_at_cross = 0
                  THEN [ raised |-> TRUE, results |-> results ]
                  ELSE calculate_percentage_change(
                           symbol, current_ltp, Tail(shifts), clock,
                           Append(results,
                                  ScoredOutcome(symbol, shift, current_ltp, time_diff)))
             ELSE calculate_percentage_change(
                      symbol, current_ltp, Tail(shifts), clock, results)

\* Mutant of AllMomentumChanges: the events past the window are pruned from
\* the ledger as they are scored
RECURSIVE AllMomentumChangesPruning(_, _, _, _)
AllMomentumChangesPruning(items, shifts, clock, acc) ==
    IF items = << >> THEN [ raised |-> FALSE, results |-> acc, shifts |-> shifts ]
    ELSE LET item == Head(items)
             mine == Get(shifts, item.symbol, << >>)
             IsRecent(shift) == WithinWindow(clock - shift.timestamp)
             touched == Put(shifts, item.symbol, SelectSeq(mine, IsRecent))
             changes == calculate_percentage_change(
                            item.symbol, item.ltp, mine, clock, << >>)
         IN  IF changes.raised
             THEN [ raised |-> TRUE, results |-> acc, shifts |-> touched ]
             ELSE AllMomentumChangesPruning(Tail(items), touched, clock,
                                            acc \o changes.results)

\* for symbol, price_data in prices.items(): all_momentum_changes.extend(...)
\* Reading self.momentum_shifts[symbol] inserts an empty list for a new key.
RECURSIVE AllMomentumChanges(_, _, _, _)
AllMomentumChanges(items, shifts, clock, acc) ==
    IF items = << >> THEN [ raised |-> FALSE, results |-> acc, shifts |-> shifts ]
    ELSE LET item == Head(items)
             mine == Get(shifts, item.symbol, << >>)
             touched == Put(shifts, item.symbol, mine)
             changes == calculate_percentage_change(
                            item.symbol, item.ltp, mine, clock, << >>)
         IN  IF changes.raised
             THEN [ raised |-> TRUE, results |-> acc, shifts |-> touched ]
             ELSE AllMomentumChanges(Tail(items), touched, clock,
                                     acc \o changes.results)

\* a.abs_pct_change >= b.abs_pct_change
KeyAtLeast(a, b) ==
    a.abs_pct_change[1] * b.abs_pct_change[2] >= b.abs_pct_change[1] * a.abs_pct_change[2]

\* One insertion of the stable descending sort: x goes after every outcome
\* already placed whose key is at least its own
InsertByKey(done, x) ==
    LET n == Cardinality({ i \in 1..Len(done) : KeyAtLeast(done[i], x) })
    IN  SubSeq(done, 1, n) \o << x >> \o SubSeq(done, n + 1, Len(done))

\* sorted(all_momentum_changes, key=lambda x: x['abs_pct_change'], reverse=True)
RECURSIVE SortedChanges(_, _)
SortedChanges(changes, done) ==
    IF changes = << >> THEN done
    ELSE SortedChanges(Tail(changes), InsertByKey(done, Head(changes)))

\* [s for s in sorted_changes if s['shift_type'] == shift_type]
OfType(changes, shift_type) ==
    SelectSeq(changes, LAMBDA s : s.shift_type = shift_type)

-----------------------------------------------------------------------------
(* The program: main(), run_analysis(), generate_final_report() *)

\* The state after IntradayMomentumAnalyzer(ma_period) for a period of Periods
InitWith(Periods) ==
    /\ pc = "main"
    /\ now = 0
    /\ ma_period \in Periods
    /\ stocks = << >>
    /\ price_history = << >>
    /\ momentum_shifts = << >>
    /\ prev_cross_status = << >>
    /\ end_time = 0
    /\ interval = 0
    /\ iteration = 0
    /\ prices = << >>
    /\ sorted_changes = << >>
    /\ top_upward = << >>
    /\ top_downward = << >>
    /\ fed = << >>

\* load_nifty50_stocks returns False (no file, or the load raised): main returns
LoadStocksFails ==
    /\ pc = "main"
    /\ pc' = "exit"
    /\ UNCHANGED << now, ma_period, stocks, price_history, momentum_shifts,
                    prev_cross_status, end_time, interval, iteration, prices,
                    sorted_changes, top_upward, top_downward, fed >>

\* load_nifty50_stocks returns True with the list of the file, possibly empty
LoadStocks(Catalogs) ==
    /\ pc = "main"
    /\ \E catalog \in Catalogs : stocks' = catalog
    /\ pc' = "run"
    /\ UNCHANGED << now, ma_period, price_history, momentum_shifts,
                    prev_cross_status, end_time, interval, iteration, prices,
                    sorted_changes, top_upward, top_downward, fed >>

\* run_analysis: if not self.stocks: return
NoStocksLoaded ==
    /\ pc = "run"
    /\ stocks = << >>
    /\ pc' = "exit"
    /\ UNCHANGED << now, ma_period, stocks, price_history, momentum_shifts,
                    prev_cross_status, end_time, interval, iteration, prices,
                    sorted_changes, top_upward, top_downward, fed >>

\* run_analysis: if not self._init_session(): return
InitSessionFails ==
    /\ pc = "run"
    /\ stocks # << >>
    /\ pc' = "exit"
    /\ UNCHANGED << now, ma_period, stocks, price_history, momentum_shifts,
                    prev_cross_status, end_time, interval, iteration, prices,
                    sorted_changes, top_upward, top_downward, fed >>

\* Mutant of StartLoop: the loop is entered without the test of self.stocks
StartLoopUnguarded(RunArgs) ==
    /\ pc = "run"
    /\ \E args \in RunArgs :
         /\ end_time' = now + args.duration_minutes
         /\ interval' = args.interval_minutes
    /\ iteration' = 0
    /\ pc' = "loop"
    /\ UNCHANGED << now, ma_period, stocks, price_history, momentum_shifts,
                    prev_cross_status, prices, sorted_changes, top_upward,
                    top_downward, fed >>

\* run_analysis: start_time, end_time and iteration are set
StartLoop(RunArgs) ==
    /\ pc = "run"
    /\ stocks # << >>
    /\ \E args \in RunArgs :
         /\ end_time' = now + args.duration_minutes
         /\ interval' = args.interval_minutes
    /\ iteration' = 0
    /\ pc' = "loop"
    /\ UNCHANGED << now, ma_period, stocks, price_history, momentum_shifts,
                    prev_cross_status, prices, sorted_changes, top_upward,
                    top_downward, fed >>

\* while datetime.now() < end_time: iteration += 1; prices = fetch_all_live_prices()
\* for a response of the feed among responses
FetchPrices(responses) ==
    /\ pc = "loop"
    /\ now < end_time
    /\ iteration' = iteration + 1
    /\ \E rows \in responses :
         prices' = fetch_all_live_prices(rows, now, << >>)
    /\ pc' = "evaluate"
    /\ UNCHANGED << now, ma_period, stocks, price_history, momentum_shifts,
                    prev_cross_status, end_time, interval, sorted_changes,
                    top_upward, top_downward, fed >>

\* the for loop over prices.items(), then _display_current_status()
Evaluate ==
    /\ pc = "evaluate"
    /\ LET st == UpdateAndDetect(Stores, ma_period, prices)
       IN  /\ price_history' = st.price_history
           /\ momentum_shifts' = st.momentum_shifts
           /\ prev_cross_status' = st.prev_cross_status
           /\ fed' = st.fed
    /\ prices' = << >>
    /\ pc' = "sleep"
    /\ UNCHANGED << now, ma_period, stocks, end_time, interval, iteration,
                    sorted_changes, top_upward, top_downward >>

\* Mutant of Sleep: the sleep is cut short at the end time
SleepUntilEnd ==
    /\ pc = "sleep"
    /\ now' = Min(now + interval, end_time)
    /\ pc' = "loop"
    /\ UNCHANGED << ma_period, stocks, price_history, momentum_shifts,
                    prev_cross_status, end_time, interval, iteration, prices,
                    sorted_changes, top_upward, top_downward, fed >>

\* time.sleep(interval_seconds)
Sleep ==
    /\ pc = "sleep"
    /\ now' = now + interval
    /\ pc' = "loop"
    /\ UNCHANGED << ma_period, stocks, price_history, momentum_shifts,
                    prev_cross_status, end_time, interval, iteration, prices,
                    sorted_changes, top_upward, top_downward, fed >>

\* The loop ends and generate_final_report() runs: it raises out of
\* calculate_percentage_change, returns early without outcomes, or ranks the
\* outcomes and hands both top lists to _save_results
GenerateFinalReport(responses) ==
    /\ pc = "loop"
    /\ ~ (now < end_time)
    /\ \E rows \in responses :
         LET fresh == fetch_all_live_prices(rows, now, << >>)
             all == AllMomentumChanges(fresh, momentum_shifts, now, << >>)
             ranked == SortedChanges(all.results, << >>)
         IN  /\ prices' = fresh
             /\ momentum_shifts' = all.shifts
             /\ IF all.raised
                THEN /\ pc' = "crashed"
                     /\ UNCHANGED << sorted_changes, top_upward, top_downward >>
                ELSE IF all.results = << >>
                THEN /\ pc' = "no_report"
                     /\ UNCHANGED << sorted_changes, top_upward, top_downward >>
                ELSE /\ pc' = "reported"
                     /\ sorted_changes' = ranked
                     /\ top_upward' = FirstN(OfType(ranked, "Upward"), TopN)
                     /\ top_downward' = FirstN(OfType(ranked, "Downward"), TopN)
    /\ UNCHANGED << now, ma_period, stocks, price_history, prev_cross_status,
                    end_time, interval, iteration, fed >>

-----------------------------------------------------------------------------
(* Two instruments, a few cycles *)

Catalogs == { << >>, << "A", "B" >> }

PairFeed(n) == Responses({ "A", "B" }, { 0, 1 })

PairReportFeed(n) == Responses({ "A", "B" }, { 0, 1, 2 })

PairArgs == { [ duration_minutes |-> MaxCycles * 30, interval_minutes |-> 30 ] }

Init == InitWith(1..MaxPeriod)

Next ==
    \/ LoadStocksFails
    \/ LoadStocks(Catalogs)
    \/ NoStocksLoaded
    \/ InitSessionFails
    \/ StartLoop(PairArgs)
    \/ FetchPrices(PairFeed(iteration + 1))
    \/ Evaluate
    \/ Sleep
    \/ GenerateFinalReport(PairReportFeed(iteration + 1))

Spec == Init /\ [][Next]_vars

-----------------------------------------------------------------------------
(* One instrument, more cycles and prices *)

OneFeed(n) == Responses({ "A" }, { 0, 1, 2, 3 })

OneArgs == { [ duration_minutes |-> MaxCyclesOne * 30, interval_minutes |-> 30 ] }

NextOne ==
    \/ LoadStocksFails
    \/ LoadStocks(Catalogs)
    \/ NoStocksLoaded
    \/ InitSessionFails
    \/ StartLoop(OneArgs)
    \/ FetchPrices(OneFeed(iteration + 1))
    \/ Evaluate
    \/ Sleep
    \/ GenerateFinalReport(OneFeed(iteration + 1))

SpecOne == Init /\ [][NextOne]_vars

-----------------------------------------------------------------------------
(* The scenario of the cross detector: period 2, instrument X fed the prices
   10, 10, 11, 9, 12 while a second instrument comes and goes *)

ScenarioPrices == << 10, 10, 11, 9, 12 >>

\* X is in every snapshot of the loop with its scripted price; Y is absent
\* or present with either price, before or after X
ScenarioFeed(n) ==
    LET x == Row("X", IF n <= Len(ScenarioPrices) THEN ScenarioPrices[n] ELSE 10)
        index == Row(IndexSymbol, 0)
    IN  { << index, x >> } \cup
        UNION { { << index, x, Row("Y", p) >>, << index, Row("Y", p), x >> } :
                p \in { 9, 12 } }

ScenarioArgs ==
    { [ duration_minutes |-> Len(ScenarioPrices) * m, interval_minutes |-> m ] :
      m \in { 1, 30 } }

InitScenario == InitWith({ 2 })

NextScenario ==
    \/ LoadStocksFails
    \/ LoadStocks(Catalogs)
    \/ NoStocksLoaded
    \/ InitSessionFails
    \/ StartLoop(ScenarioArgs)
    \/ FetchPrices(ScenarioFeed(iteration + 1))
    \/ Evaluate
    \/ Sleep
    \/ GenerateFinalReport(ScenarioFeed(iteration + 1))

SpecScenario == InitScenario /\ [][NextScenario]_vars

-----------------------------------------------------------------------------
(* A run of more cycles than the deque holds: one instrument, one sample a
   minute, its price cycling through 2, 3, 1 *)

LongFeed(n) == { << Row(IndexSymbol, 0), Row("A", 1 + (n % 3)) >> }

\* The response to the fetch of the report: a failure, or any price of the cycle
LongReportFeed(n) == Responses({ "A" }, { 1, 2, 3 })

\* One cycle a minute up to the end time, or one every 7 minutes with the
\* last sleep ending 3 minutes past the end time
LongArgs ==
    { [ duration_minutes |-> MaxCyclesLong, interval_minutes |-> 1 ],
      [ duration_minutes |-> MaxCyclesLong * 7 - 3, interval_minutes |-> 7 ] }

NextLong ==
    \/ LoadStocksFails
    \/ LoadStocks(Catalogs)
    \/ NoStocksLoaded
    \/ InitSessionFails
    \/ StartLoop(LongArgs)
    \/ FetchPrices(LongFeed(iteration + 1))
    \/ Evaluate
    \/ Sleep
    \/ GenerateFinalReport(LongReportFeed(iteration + 1))

SpecLong == Init /\ [][NextLong]_vars

-----------------------------------------------------------------------------
(* Properties *)

Ledger(symbol) == Get(momentum_shifts, symbol, << >>)

Window(symbol) == Get(price_history, symbol, << >>)

Fed(symbol) == Get(fed, symbol, << >>)

Known == DOMAIN fed \cup DOMAIN price_history \cup DOMAIN momentum_shifts
         \cup DOMAIN prev_cross_status

\* samples[a][2] + ... + samples[b][2]
RECURSIVE SumRange(_, _, _)
SumRange(samples, a, b) ==
    IF a > b THEN 0 ELSE samples[b][2] + SumRange(samples, a, b - 1)

\* The i-th recorded price is above the mean of the k prices ending with it
AboveAt(samples, k, i) == samples[i][2] * k > SumRange(samples, i - k + 1, i)

\* The evaluations after the first defined one at which the side changed
SignChanges(samples, k) ==
    { i \in (k + 1)..Len(samples) : AboveAt(samples, k, i) # AboveAt(samples, k, i - 1) }

\* C1: for every instrument, the number of events in its ledger equals the
\* number of evaluations with a defined moving average, other than the first,
\* at which (price > moving average) differs from the previous evaluation.
C1_EventsCountSignChanges ==
    \A s \in Known :
        Len(Ledger(s)) = Cardinality(SignChanges(Fed(s), ma_period))

\* An instrument fed five samples with two events and two defined
\* evaluations that kept the side
C1_Witness ==
    \E s \in Known :
        /\ Len(Fed(s)) = 5
        /\ ma_period = 2
        /\ Len(Ledger(s)) = 2

\* C2: the directions of the events of one ledger strictly alternate.
C2_DirectionsAlternate ==
    \A s \in Known :
        \A i \in 1..(Len(Ledger(s)) - 1) :
            Ledger(s)[i].shift_type # Ledger(s)[i + 1].shift_type

\* A ledger of three events
C2_Witness == \E s \in Known : Len(Ledger(s)) = 3

\* The item of the pending snapshot for a symbol
ItemOf(symbol) ==
    prices[CHOOSE i \in 1..Len(prices) : prices[i].symbol = symbol]

\* C3: the first evaluation of an instrument with a defined moving average
\* (no Cross State before it) emits no event and sets the Cross State to
\* Tracking(price > moving average).
C3_FirstEvaluationStep ==
    \A s \in Symbols(prices) :
        ( /\ pc = "evaluate"
          /\ s \notin DOMAIN prev_cross_status
          /\ Len(Get(price_history', s, << >>)) >= ma_period )
        => /\ Get(momentum_shifts', s, << >>) = Ledger(s)
           /\ s \in DOMAIN prev_cross_status'
           /\ prev_cross_status'[s].timestamp = ItemOf(s).timestamp
           /\ prev_cross_status'[s].above_ma =
                  AboveAt(price_history'[s], ma_period, Len(price_history'[s]))

C3_FirstEvaluationIsBaseline == [][C3_FirstEvaluationStep]_vars

\* An instrument whose first defined evaluation has just set Tracking(true)
\* and left its ledger empty
C3_Witness ==
    \E s \in DOMAIN prev_cross_status :
        /\ pc = "sleep"
        /\ Len(Window(s)) = ma_period
        /\ prev_cross_status[s].above_ma
        /\ prev_cross_status[s].timestamp = now
        /\ Ledger(s) = << >>

\* C4: a detection on a window of fewer than ma_period samples leaves the
\* Cross State (absent, or its value and time) and the ledger as they were.
C4_ShortWindowStep ==
    \A s \in Symbols(prices) :
        ( /\ pc = "evaluate"
          /\ Len(Get(price_history', s, << >>)) < ma_period )
        => /\ Get(momentum_shifts', s, << >>) = Ledger(s)
           /\ (s \in DOMAIN prev_cross_status') = (s \in DOMAIN prev_cross_status)
           /\ s \in DOMAIN prev_cross_status =>
                  prev_cross_status'[s] = prev_cross_status[s]

C4_UndefinedAverageSkips == [][C4_ShortWindowStep]_vars

\* An instrument that was evaluated on a window shorter than the period
C4_Witness ==
    \E s \in DOMAIN price_history :
        /\ pc = "sleep"
        /\ Len(Window(s)) >= 1
        /\ Len(Window(s)) < ma_period
        /\ Window(s)[Len(Window(s))][1] = now
        /\ s \notin DOMAIN prev_cross_status

\* a fraction equals n/d
FracEq(f, n, d) == f # None /\ f[1] * d = n * f[2]

IsEvent(e, timestamp, shift_type, price, ma_n, ma_d) ==
    /\ e.timestamp = timestamp
    /\ e.shift_type = shift_type
    /\ e.price_at_cross = price
    /\ FracEq(e.ma_at_cross, ma_n, ma_d)

\* C5: with period 2 and X fed 10, 10, 11, 9, 12 at t1..t5 the ledger of X
\* ends as Upward@t3 (11, 10.5), Downward@t4 (9, 10.0), Upward@t5 (12, 10.5),
\* and holds nothing after t1 and after t2.
C5_ScenarioLedger ==
    LET x == Fed("X")
        l == Ledger("X")
    IN  /\ Len(x) <= 2 => l = << >>
        /\ ( /\ ma_period = 2
             /\ Len(x) = 5
             /\ [ i \in 1..5 |-> x[i][2] ] = ScenarioPrices )
           => /\ Len(l) = 3
              /\ IsEvent(l[1], x[3][1], "Upward", 11, 21, 2)
              /\ IsEvent(l[2], x[4][1], "Downward", 9, 10, 1)
              /\ IsEvent(l[3], x[5][1], "Upward", 12, 21, 2)

\* X has been fed all five prices, at t5 = 120
C5_Witness ==
    /\ Len(Fed("X")) = 5
    /\ Fed("X")[5][1] = 120
    /\ Len(Ledger("X")) = 3
    /\ pc = "sleep"

\* C6, in every state: the average is None exactly below ma_period samples,
\* and otherwise the sum of exactly the last ma_period prices over ma_period
C6_MeanState ==
    \A s \in DOMAIN price_history :
        LET h == price_history[s]
            ma == calculate_moving_average(h, ma_period)
        IN  /\ (ma = None) = (Len(h) < ma_period)
            /\ Len(h) >= ma_period =>
                   /\ ma[2] = ma_period
                   /\ ma[1] = SumRange(h, Len(h) - ma_period + 1, Len(h))

\* C6, in every step: one more sample drops the oldest of the ma_period
\* terms and adds the new price
C6_MeanStep ==
    \A s \in Symbols(prices) :
        ( /\ pc = "evaluate"
          /\ Len(Window(s)) >= ma_period )
        => LET h == Window(s)
               old == calculate_moving_average(h, ma_period)
               new == calculate_moving_average(price_history'[s], ma_period)
           IN  /\ new # None
               /\ new[2] = old[2]
               /\ new[1] = old[1] - h[Len(h) - ma_period + 1][2] + ItemOf(s).ltp

\* C6: calculate_moving_average is None exactly below ma_period samples and
\* otherwise the mean of exactly the ma_period most recent prices; one more
\* sample drops the oldest term and adds the new one.
C6_MeanOfLastK == [] C6_MeanState /\ [][C6_MeanStep]_vars

\* A window longer than the period whose average differs from the mean of
\* all its samples
C6_Witness ==
    \E s \in DOMAIN price_history :
        LET h == price_history[s]
            ma == calculate_moving_average(h, ma_period)
        IN  /\ Len(h) > ma_period
            /\ ma # None
            /\ ma[1] * Len(h) # SumRange(h, 1, Len(h)) * ma[2]

\* C7: the History Window is the last min(n, 60) of the n samples recorded,
\* in the order recorded.
C7_WindowIsLastSamples ==
    \A s \in Known :
        LET n == Len(Fed(s))
            kept == Min(n, 60)
        IN  /\ Len(Window(s)) <= 60
            /\ Window(s) = [ i \in 1..kept |-> Fed(s)[n - kept + i] ]

\* A full window one record after it filled
C7_Witness ==
    \E s \in Known : Len(Fed(s)) = 61 /\ Len(Window(s)) = 60

StoresOf(ph, ms, st, s) ==
    << s \in DOMAIN ph, Get(ph, s, << >>),
       s \in DOMAIN ms, Get(ms, s, << >>),
       s \in DOMAIN st, Get(st, s, << >>) >>

\* C8, in every step of a polling cycle: an instrument that is not in the
\* snapshot being evaluated keeps its window, Cross State and ledger; one that
\* is in it has the sample appended to the window it had
C8_AbsentStep ==
    pc' \in { "loop", "evaluate", "sleep" } =>
        \A s \in Known \cup { "A", "B" } :
            IF s \in Symbols(prices)
            THEN price_history'[s] =
                     Append(Window(s), << ItemOf(s).timestamp, ItemOf(s).ltp >>)
            ELSE StoresOf(price_history', momentum_shifts', prev_cross_status', s)
                 = StoresOf(price_history, momentum_shifts, prev_cross_status, s)

\* C8: an instrument absent from a cycle's snapshot (the empty snapshot of a
\* failed feed included) is unchanged by the cycle, and detection continues
\* from the retained state when it reappears.
C8_AbsentInstrumentUnchanged == [][C8_AbsentStep]_vars

\* An instrument that missed the cycle at minute 30, which the other one
\* took, and whose Cross State was set at minute 60 from its retained sample
C8_Witness ==
    \E s, o \in Known :
        /\ s # o
        /\ ma_period = 2
        /\ Len(Fed(s)) = 2
        /\ Fed(s)[1][1] = 0
        /\ Fed(s)[2][1] = 60
        /\ \E i \in 1..Len(Fed(o)) : Fed(o)[i][1] = 30
        /\ s \in DOMAIN prev_cross_status
        /\ prev_cross_status[s].timestamp = 60

ReportEnded == pc \in { "crashed", "no_report", "reported" }

\* The events of the instruments of the report's snapshot that are within
\* the relevance window at report time, as << symbol, position >>
RelevantEvents ==
    { << s, i >> \in UNION { { s } \X (1..Len(Ledger(s))) : s \in Symbols(prices) } :
        now - Ledger(s)[i].timestamp <= 60 }

IsOutcomeOf(o, s, i) ==
    /\ o.symbol = s
    /\ o.shift_time = Ledger(s)[i].timestamp
    /\ o.shift_type = Ledger(s)[i].shift_type
    /\ o.price_at_cross = Ledger(s)[i].price_at_cross

\* C9: when a within-window event has cross price 0, scoring does not raise,
\* that event is in no ranking, and every other relevant event is ranked.
C9_ZeroCrossDropped ==
    ( /\ ReportEnded
      /\ \E e \in RelevantEvents : Ledger(e[1])[e[2]].price_at_cross = 0 )
    => /\ pc # "crashed"
       /\ \A i \in 1..Len(sorted_changes) : sorted_changes[i].price_at_cross # 0
       /\ \A e \in RelevantEvents :
              Ledger(e[1])[e[2]].price_at_cross # 0 =>
                  \E i \in 1..Len(sorted_changes) :
                      IsOutcomeOf(sorted_changes[i], e[1], e[2])

SymbolOrder == << "A", "B", "X", "Y" >>

SymbolRank(symbol) == CHOOSE i \in 1..Len(SymbolOrder) : SymbolOrder[i] = symbol

\* a comes before b: greater absolute change; then later detection; then
\* smaller symbol
RankedBefore(a, b) ==
    LET ab == a.abs_pct_change[1] * b.abs_pct_change[2]
        ba == b.abs_pct_change[1] * a.abs_pct_change[2]
    IN  \/ ab > ba
        \/ /\ ab = ba
           /\ \/ a.shift_time > b.shift_time
              \/ /\ a.shift_time = b.shift_time
                 /\ SymbolRank(a.symbol) <= SymbolRank(b.symbol)

\* C10: the combined ranking is by descending absolute percentage change,
\* ties by the more recent detection time, then by the smaller symbol.
C10_RankingTotalOrder ==
    \A i \in 1..(Len(sorted_changes) - 1) :
        RankedBefore(sorted_changes[i], sorted_changes[i + 1])

\* The places of the outcomes of one direction in the combined ranking
PlacesOf(shift_type) ==
    { i \in 1..Len(sorted_changes) : sorted_changes[i].shift_type = shift_type }

\* The k-th smallest member of a set of places
NthPlace(places, k) ==
    CHOOSE i \in places : Cardinality({ j \in places : j < i }) = k - 1

\* top holds the first min(5, n) outcomes of one direction, in ranking order
IsTopOf(top, shift_type) ==
    /\ Len(top) = Min(5, Cardinality(PlacesOf(shift_type)))
    /\ \A k \in 1..Len(top) :
           top[k] = sorted_changes[NthPlace(PlacesOf(shift_type), k)]

\* C11: each directional list handed to the sink is the first min(5, n)
\* outcomes of its direction in the order of the combined ranking, and holds
\* no outcome of the other direction.
C11_TopListsFromRanking ==
    pc = "reported" =>
        /\ IsTopOf(top_upward, "Upward")
        /\ IsTopOf(top_downward, "Downward")
        /\ \A k \in 1..Len(top_upward) : top_upward[k].shift_type = "Upward"
        /\ \A k \in 1..Len(top_downward) : top_downward[k].shift_type = "Downward"

\* A report with more than five outcomes of each direction, the Downward
\* ones ranked first
C11_Witness ==
    /\ pc = "reported"
    /\ Cardinality(PlacesOf("Upward")) > 5
    /\ Cardinality(PlacesOf("Downward")) > 5
    /\ Len(top_upward) = 5
    /\ Len(top_downward) = 5
    /\ sorted_changes[1].shift_type = "Downward"

\* The age in minutes, at the clock of the report, of the i-th event of s
AgeOf(s, i) == now - Ledger(s)[i].timestamp

Scored(s, i) ==
    \E k \in 1..Len(sorted_changes) : IsOutcomeOf(sorted_changes[k], s, i)

\* C12: every outcome of the report comes from an event at most 60 minutes
\* old; an older event yields no outcome, one aged exactly 60 minutes yields
\* one.
C12_OutcomesWithinWindow ==
    pc \in { "no_report", "reported" } =>
        /\ \A k \in 1..Len(sorted_changes) :
               LET o == sorted_changes[k]
               IN  /\ o.time_since_shift_mins = now - o.shift_time
                   /\ o.time_since_shift_mins <= 60
                   /\ \E i \in 1..Len(Ledger(o.symbol)) :
                          IsOutcomeOf(o, o.symbol, i)
        /\ \A s \in Symbols(prices) : \A i \in 1..Len(Ledger(s)) :
               /\ AgeOf(s, i) > 60 => ~Scored(s, i)
               /\ AgeOf(s, i) = 60 => Scored(s, i)

\* A report over events aged more than, exactly and less than 60 minutes
C12_Witness ==
    /\ pc = "reported"
    /\ \E s \in Symbols(prices) : \E i, j, k \in 1..Len(Ledger(s)) :
           /\ AgeOf(s, i) > 60 /\ ~Scored(s, i)
           /\ AgeOf(s, j) = 60 /\ Scored(s, j)
           /\ AgeOf(s, k) < 60 /\ Scored(s, k)

\* C13: at report time an outcome is computed for every instrument that has
\* events in the ledger and for every one of its events within the window:
\* no relevant event of any instrument is missing from the combined ranking.
C13_EveryRelevantEventScored ==
    pc \in { "no_report", "reported" } =>
        \A s \in DOMAIN momentum_shifts : \A i \in 1..Len(Ledger(s)) :
            AgeOf(s, i) <= 60 => Scored(s, i)

IsPrefix(s, t) == Len(s) <= Len(t) /\ SubSeq(t, 1, Len(s)) = s

C14_LedgerStep ==
    \A s \in DOMAIN momentum_shifts : IsPrefix(Ledger(s), Ledger(s)')

\* C14: the ledger is append-only over the whole run: each instrument's
\* ledger is a prefix of its ledger at every later step, the cycles and the
\* final report included; events older than the window stay in place.
C14_LedgerAppendOnly == [][C14_LedgerStep]_vars

\* After the report the ledger still holds an event older than the window
C14_Witness ==
    /\ pc = "reported"
    /\ \E s \in Symbols(prices) :
           /\ Len(Ledger(s)) >= 3
           /\ AgeOf(s, 1) > 60

\* The stores after detect_momentum_shift is called once more for s with the
\* price and timestamp of its latest sample, the window left as it is
DetectedAgain(s) ==
    LET latest == Window(s)[Len(Window(s))]
    IN  detect_momentum_shift(Stores, ma_period, s, latest[2], latest[1])

\* C15: a second call of detect_momentum_shift with the same price and
\* timestamp and an unchanged window, after the first call recorded its
\* state, appends no event and leaves the Cross State as it is.
C15_SecondCallChangesNothing ==
    \A s \in DOMAIN price_history :
        /\ DetectedAgain(s).momentum_shifts = momentum_shifts
        /\ DetectedAgain(s).prev_cross_status = prev_cross_status

\* The first call has just appended an event for the latest sample
C15_Witness ==
    /\ pc = "sleep"
    /\ \E s \in DOMAIN price_history :
           /\ Ledger(s) # << >>
           /\ Ledger(s)[Len(Ledger(s))].timestamp = Window(s)[Len(Window(s))][1]
           /\ Len(DetectedAgain(s).momentum_shifts[s]) = Len(Ledger(s))

\* The items of the report's snapshot in every order
Reorderings(items) ==
    { [ i \in 1..Len(items) |-> items[f[i]] ] : f \in Permutations(1..Len(items)) }

\* The combined ranking of the same outcomes when the snapshot lists the
\* instruments in the order of items
RankingOf(items) ==
    SortedChanges(AllMomentumChanges(items, momentum_shifts, now, << >>).results, << >>)

\* C16: the ranking depends only on the set of outcomes: the same outcomes
\* presented in another order (the feed listing the instruments differently)
\* give the same combined order and the same directional lists.
C16_RankingIgnoresInputOrder ==
    pc = "reported" =>
        \A items \in Reorderings(prices) :
            /\ RankingOf(items) = sorted_changes
            /\ FirstN(OfType(RankingOf(items), "Upward"), TopN) = top_upward
            /\ FirstN(OfType(RankingOf(items), "Downward"), TopN) = top_downward

\* C17: a run that entered the polling loop leaves it once the clock has
\* passed the end time, and it then always ends with the ranked report
\* generated and handed to the sink (never with no report, never raising).
C17_ReportAlwaysHanded ==
    /\ pc = "loop" /\ now >= end_time => ENABLED GenerateFinalReport({ << >> })
    /\ ReportEnded => pc = "reported"

\* C18: when the catalog cannot be supplied (no file, an unreadable one, or
\* an empty basket) the run stops before any cycle: no price is fetched, no
\* window, Cross State or ledger entry is created and no report is generated.
C18_NoCatalogNoCycle ==
    stocks = << >> =>
        /\ pc \in { "main", "run", "exit" }
        /\ iteration = 0
        /\ prices = << >>
        /\ fed = << >>
        /\ price_history = << >>
        /\ prev_cross_status = << >>
        /\ momentum_shifts = << >>
        /\ sorted_changes = << >>
        /\ top_upward = << >>
        /\ top_downward = << >>

\* The run has stopped for want of a catalog
C18_Witness ==
    /\ pc = "exit"
    /\ stocks = << >>
    /\ iteration = 0
    /\ fed = << >>

\* The price of the latest sample of s equals the average of its window
AtEquality(window, period) ==
    LET ma == calculate_moving_average(window, period)
    IN  /\ ma # None
        /\ window[Len(window)][2] * ma[2] = ma[1]

C19_EqualityStep ==
    pc = "evaluate" /\ pc' = "sleep" =>
        \A s \in Symbols(prices) :
            AtEquality(Window(s)', ma_period) =>
                /\ prev_cross_status'[s].above_ma = FALSE
                /\ IF s \in DOMAIN prev_cross_status /\ prev_cross_status[s].above_ma
                   THEN /\ Len(Ledger(s)') = Len(Ledger(s)) + 1
                        /\ IsPrefix(Ledger(s), Ledger(s)')
                        /\ LET event == Ledger(s)'[Len(Ledger(s)')]
                           IN  /\ event.shift_type = "Downward"
                               /\ event.timestamp = ItemOf(s).timestamp
                               /\ event.price_at_cross = ItemOf(s).ltp
                   ELSE Ledger(s)' = Ledger(s)

\* C19: an evaluation at which the price equals the average counts as not
\* above: it emits a Downward event exactly when the previous state was
\* above, nothing when it was not above, and further evaluations at equality
\* emit nothing.
C19_EqualityIsNotAbove == [][C19_EqualityStep]_vars

\* Two evaluations at equality in a row: the first emitted a Downward event
\* from above, the second emitted nothing
C19_Witness ==
    /\ pc = "sleep"
    /\ \E s \in DOMAIN price_history :
           LET w == Window(s)
               n == Len(w)
           IN  /\ n >= ma_period + 2
               /\ AtEquality(w, ma_period)
               /\ AtEquality(SubSeq(w, 1, n - 1), ma_period)
               /\ Ledger(s) # << >>
               /\ Ledger(s)[Len(Ledger(s))].shift_type = "Downward"
               /\ Ledger(s)[Len(Ledger(s))].timestamp = w[n - 1][1]
               /\ prev_cross_status[s].above_ma = FALSE

C20_CycleStep ==
    /\ pc = "loop" /\ pc' = "evaluate" => now < end_time /\ iteration' = iteration + 1
    /\ pc = "loop" /\ now >= end_time => pc' \in { "crashed", "no_report", "reported" }
    /\ pc = "evaluate" => pc' = "sleep" /\ now' = now
    /\ pc = "sleep" => pc' = "loop" /\ now' = now + interval
    /\ ReportEnded' /\ ~ReportEnded =>
           /\ pc = "loop"
           /\ now >= end_time
           /\ now = iteration * interval

\* C20: the end time is tested only at the top of a cycle: no cycle starts
\* once the clock has reached the end time, a cycle that has started runs its
\* fetch, evaluation and whole sleep even if the end time passes meanwhile,
\* and the report starts only after the last cycle has finished.
C20_EndTimeCheckedAtTop == [][C20_CycleStep]_vars

\* The last sleep ran past the end time before the report was made
C20_Witness ==
    /\ pc = "reported"
    /\ now > end_time
    /\ now = iteration * interval

\* The event was emitted by the evaluation of the j-th sample recorded for s
EmittedAt(event, s, j) ==
    /\ Fed(s)[j] = << event.timestamp, event.price_at_cross >>
    /\ event.ma_at_cross = << SumRange(Fed(s), j - ma_period + 1, j), ma_period >>

\* C21: every event of every ledger carries the price, the moving average and
\* the timestamp of the evaluation that emitted it, and it is Upward exactly
\* when its price at cross is strictly greater than its average at cross.
C21_EventCarriesEvaluation ==
    \A s \in DOMAIN momentum_shifts : \A i \in 1..Len(Ledger(s)) :
        LET event == Ledger(s)[i]
        IN  /\ \E j \in ma_period..Len(Fed(s)) : EmittedAt(event, s, j)
            /\ event.shift_type \in { "Upward", "Downward" }
            /\ (event.shift_type = "Upward")
                   = (event.price_at_cross * event.ma_at_cross[2] > event.ma_at_cross[1])

\* A ledger with an event of each direction, the Downward one at equality
C21_Witness ==
    \E s \in DOMAIN momentum_shifts : \E i, j \in 1..Len(Ledger(s)) :
        /\ Ledger(s)[i].shift_type = "Upward"
        /\ Ledger(s)[j].shift_type = "Downward"
        /\ Ledger(s)[j].price_at_cross * Ledger(s)[j].ma_at_cross[2]
               = Ledger(s)[j].ma_at_cross[1]

\* The detection times of each ledger increase strictly
C22_LedgerOrdered ==
    \A s \in DOMAIN momentum_shifts : \A i \in 1..(Len(Ledger(s)) - 1) :
        Ledger(s)[i].timestamp < Ledger(s)[i + 1].timestamp

\* The instruments whose ledger grows in the step
Emitting == { s \in DOMAIN momentum_shifts' : Len(Ledger(s)') > Len(Ledger(s)) }

C22_CycleStep ==
    /\ \A s \in Emitting :
           /\ pc = "evaluate"
           /\ Len(Ledger(s)') = Len(Ledger(s)) + 1
           /\ Ledger(s)'[Len(Ledger(s)')].timestamp = now
    /\ \A s, t \in Emitting :
           Ledger(s)'[Len(Ledger(s)')].timestamp = Ledger(t)'[Len(Ledger(t)')].timestamp

\* C22: each ledger is in arrival order with at most one event per
\* instrument per polling cycle: detection times increase along a ledger, and
\* all the events emitted in one cycle carry the same timestamp, that of the
\* cycle's snapshot.
C22_ArrivalOrder == [] C22_LedgerOrdered /\ [][C22_CycleStep]_vars

\* X and Y emitted in the same cycle, X for the second time at least
C22_Witness ==
    /\ pc = "sleep"
    /\ Len(Ledger("X")) >= 2
    /\ Len(Ledger("Y")) >= 1
    /\ Ledger("X")[Len(Ledger("X"))].timestamp = Ledger("Y")[Len(Ledger("Y"))].timestamp
    /\ Ledger("X")[Len(Ledger("X"))].timestamp = Fed("X")[Len(Fed("X"))][1]

\* C23: in every state an instrument with a non-empty ledger has a Cross
\* State, and its latest event is Upward exactly when that state is
\* Tracking(true).
C23_LastEventAgreesWithState ==
    \A s \in DOMAIN momentum_shifts :
        Ledger(s) # << >> =>
            /\ s \in DOMAIN prev_cross_status
            /\ (Ledger(s)[Len(Ledger(s))].shift_type = "Upward")
                   = prev_cross_status[s].above_ma

\* Evaluations went on after the latest event, an Upward one preceded by a
\* Downward one, without changing the side
C23_Witness ==
    \E s \in DOMAIN momentum_shifts :
        /\ Len(Ledger(s)) >= 2
        /\ Ledger(s)[Len(Ledger(s))].shift_type = "Upward"
        /\ prev_cross_status[s].above_ma
        /\ prev_cross_status[s].timestamp > Ledger(s)[Len(Ledger(s))].timestamp

\* With period 1 no ledger holds an event and no instrument is above
C24_PeriodOneSilent ==
    ma_period = 1 =>
        /\ \A s \in DOMAIN momentum_shifts : Ledger(s) = << >>
        /\ \A s \in DOMAIN prev_cross_status : ~prev_cross_status[s].above_ma

\* In an evaluation the newest sample of the window is the one of the
\* snapshot, and the side stored compares its price with the average of the
\* window that already holds it
C24_RecordedFirstStep ==
    pc = "evaluate" /\ pc' = "sleep" =>
        \A s \in Symbols(prices) :
            LET w == Window(s)'
                n == Len(w)
            IN  /\ w[n] = << ItemOf(s).timestamp, ItemOf(s).ltp >>
                /\ n >= ma_period =>
                       /\ s \in DOMAIN prev_cross_status'
                       /\ prev_cross_status'[s].above_ma
                              = (ItemOf(s).ltp * ma_period
                                     > SumRange(w, n - ma_period + 1, n))

\* C24: the driver records the sample before the detector runs, so the
\* average compared with the price has that price as its newest term; with
\* period 1 the average is the price itself and no event is ever emitted,
\* whatever the prices.
C24_SampleRecordedFirst == [] C24_PeriodOneSilent /\ [][C24_RecordedFirstStep]_vars

\* Period 1 with prices that rose and then fell, and no event
C24_Witness ==
    /\ ma_period = 1
    /\ \E s \in DOMAIN prev_cross_status :
           /\ Len(Fed(s)) >= 3
           /\ Fed(s)[1][2] < Fed(s)[2][2]
           /\ Fed(s)[3][2] < Fed(s)[2][2]
           /\ Ledger(s) = << >>

\* Every price recorded so far is non-negative
FedNonNegative ==
    \A s \in DOMAIN fed : \A i \in 1..Len(Fed(s)) : Fed(s)[i][2] >= 0

\* C25: with non-negative prices every Upward event has a strictly positive
\* cross price: an event with cross price zero is Downward.
C25_UpwardCrossPositive ==
    FedNonNegative =>
        \A s \in DOMAIN momentum_shifts : \A i \in 1..Len(Ledger(s)) :
            /\ Ledger(s)[i].shift_type = "Upward" => Ledger(s)[i].price_at_cross > 0
            /\ Ledger(s)[i].price_at_cross = 0 => Ledger(s)[i].shift_type = "Downward"

\* A Downward event with cross price zero, after an Upward one
C25_Witness ==
    \E s \in DOMAIN momentum_shifts : \E i, j \in 1..Len(Ledger(s)) :
        /\ i < j
        /\ Ledger(s)[i].shift_type = "Upward"
        /\ Ledger(s)[j].shift_type = "Downward"
        /\ Ledger(s)[j].price_at_cross = 0

\* The symbols of the loaded catalog
Catalogued == { stocks[i] : i \in 1..Len(stocks) }

\* The instruments that get a window, a Cross State or an event in the step
Created ==
    (DOMAIN price_history' \ DOMAIN price_history)
        \cup (DOMAIN prev_cross_status' \ DOMAIN prev_cross_status)
        \cup { s \in DOMAIN momentum_shifts' : Len(Ledger(s)') > Len(Ledger(s)) }

C26_SnapshotStep ==
    /\ \A s \in Created : pc = "evaluate" /\ s \in Symbols(prices)
    /\ pc = "evaluate" /\ pc' = "sleep" =>
           \A s \in Symbols(prices) :
               /\ s \in DOMAIN price_history'
               /\ Len(Fed(s)') = Len(Fed(s)) + 1
               /\ Window(s)'[Len(Window(s)')] = << ItemOf(s).timestamp, ItemOf(s).ltp >>
    /\ pc \in { "loop", "evaluate", "sleep" } => stocks # << >> /\ stocks' = stocks

\* C26: an instrument gets a window, a Cross State or a ledger event only in
\* the evaluation of a snapshot that lists it, and every symbol of a cycle's
\* snapshot gets its sample recorded in that cycle, in the catalog or not; the
\* catalog only decides whether the loop starts.
C26_StoresFollowSnapshots == [][C26_SnapshotStep]_vars

\* Instruments outside the catalog with a window, a Cross State and events
C26_Witness ==
    /\ pc = "sleep"
    /\ stocks # << >>
    /\ "X" \notin Catalogued
    /\ "Y" \notin Catalogued
    /\ Len(Ledger("X")) >= 1
    /\ "X" \in DOMAIN prev_cross_status
    /\ "Y" \in DOMAIN price_history

====
